---- MODULE Spec2Model ----
(***************************************************************************)
(* A model of tsdav's request core (src/request.ts): davRequest, propfind, *)
(* and the callbacks davRequest hands to the xml-js compact parser.        *)
(*                                                                         *)
(* Strings are sequences of one-character strings, so that the regular     *)
(* expressions and String methods of the source are computed and not       *)
(* assumed.  JavaScript values are tagged records; objects are ordered     *)
(* maps (sequences of <<key, value>> pairs, in insertion order, as         *)
(* Object.keys reports them).  While xml-js parses, element objects live   *)
(* in a heap and are named by reference, because textFn reaches an element *)
(* through its _parent pointer and overwrites slots of that parent.        *)
(***************************************************************************)
EXTENDS Integers, Sequences, FiniteSets, TLC

VARIABLES
    pc,         \* per call: position of davRequest
    params,     \* per call: the arguments of the call
    sent,       \* per call: the requests handed to client.fetch, in order
    davResponse,\* per call: what client.fetch resolved with
    parsed,     \* per call: TRUE once convert.xml2js was entered
    outcome,    \* per call: what the promise settled with
    doc,        \* input of the parse specifications
    tree,       \* output of the parse specifications
    name,       \* input of the name specification
    normalized  \* outputs of the name specification

vars == <<pc, params, sent, davResponse, parsed, outcome, doc, tree, name, normalized>>

-----------------------------------------------------------------------------
(* Bounds                                                                  *)

NumCalls == 2
MaxResponses == 2
MaxPropstat == 2
MaxChildren == 3
MaxNameLen == 5

-----------------------------------------------------------------------------
(* Character strings                                                       *)

s_parent == <<"_", "p", "a", "r", "e", "n", "t">>
s_attributes == <<"_", "a", "t", "t", "r", "i", "b", "u", "t", "e", "s">>
s_text == <<"_", "t", "e", "x", "t">>
s_xmlns == <<"x", "m", "l", "n", "s">>
s_xml == <<"x", "m", "l">>
s_multistatus == <<"m", "u", "l", "t", "i", "s", "t", "a", "t", "u", "s">>
s_response == <<"r", "e", "s", "p", "o", "n", "s", "e">>
s_href == <<"h", "r", "e", "f">>
s_status == <<"s", "t", "a", "t", "u", "s">>
s_error == <<"e", "r", "r", "o", "r">>
s_responsedescription == <<"r", "e", "s", "p", "o", "n", "s", "e", "d", "e", "s", "c", "r", "i", "p", "t", "i", "o", "n">>
s_propstat == <<"p", "r", "o", "p", "s", "t", "a", "t">>
s_prop == <<"p", "r", "o", "p">>
s_true == <<"t", "r", "u", "e">>
s_false == <<"f", "a", "l", "s", "e">>
s_undefined == <<"u", "n", "d", "e", "f", "i", "n", "e", "d">>
s_objectObject == <<"[", "o", "b", "j", "e", "c", "t", " ", "O", "b", "j", "e", "c", "t", "]">>
s_depth == <<"d", "e", "p", "t", "h">>
s_Depth == <<"D", "e", "p", "t", "h">>
s_ContentType == <<"C", "o", "n", "t", "e", "n", "t", "-", "T", "y", "p", "e">>
s_applicationXml == <<"a", "p", "p", "l", "i", "c", "a", "t", "i", "o", "n", "/", "x", "m", "l", ";", " ", "c", "h", "a", "r", "s", "e", "t", "=", "u", "t", "f", "-", "8">>
s_textXml == <<"t", "e", "x", "t", "/", "x", "m", "l">>
s_textPlain == <<"t", "e", "x", "t", "/", "p", "l", "a", "i", "n">>
s_PROPFIND == <<"P", "R", "O", "P", "F", "I", "N", "D">>

Lower == <<"a", "b", "c", "d", "e", "f", "g", "h", "i", "j", "k", "l", "m",
           "n", "o", "p", "q", "r", "s", "t", "u", "v", "w", "x", "y", "z">>
Upper == <<"A", "B", "C", "D", "E", "F", "G", "H", "I", "J", "K", "L", "M",
           "N", "O", "P", "Q", "R", "S", "T", "U", "V", "W", "X", "Y", "Z">>
Digits == <<"0", "1", "2", "3", "4", "5", "6", "7", "8", "9">>

IsDigit(c) == \E i \in 1..Len(Digits) : Digits[i] = c
DigitValue(c) == (CHOOSE i \in 1..Len(Digits) : Digits[i] = c) - 1
IsSpace(c) == c = " "
AllDigits(s) == Len(s) > 0 /\ \A i \in 1..Len(s) : IsDigit(s[i])

\* String.prototype.toUpperCase on one character
ToUpperCase(c) ==
    IF \E i \in 1..Len(Lower) : Lower[i] = c
    THEN Upper[CHOOSE i \in 1..Len(Lower) : Lower[i] = c]
    ELSE c

\* String.prototype.trim
RECURSIVE Trim(_)
Trim(s) ==
    IF s = <<>> THEN s
    ELSE IF IsSpace(s[1]) THEN Trim(Tail(s))
    ELSE IF IsSpace(s[Len(s)]) THEN Trim(SubSeq(s, 1, Len(s) - 1))
    ELSE s

\* String.prototype.includes
Includes(s, sub) ==
    \E i \in 0..(Len(s) - Len(sub)) : SubSeq(s, i + 1, i + Len(sub)) = sub

\* Number.parseInt(s, 10) on a run of digits
RECURSIVE ParseInt(_)
ParseInt(s) ==
    IF s = <<>> THEN 0
    ELSE 10 * ParseInt(SubSeq(s, 1, Len(s) - 1)) + DigitValue(s[Len(s)])

\* String(n) for a natural number
RECURSIVE NatToString(_)
NatToString(n) ==
    IF n < 10 THEN <<Digits[n + 1]>>
    ELSE NatToString(n \div 10) \o <<Digits[(n % 10) + 1]>>

-----------------------------------------------------------------------------
(* JavaScript values                                                       *)

Undefined == [t |-> "undefined"]
Null == [t |-> "null"]
Bool(b) == [t |-> "boolean", b |-> b]
Num(n) == [t |-> "number", n |-> n]
Str(s) == [t |-> "string", s |-> s]
Ref(i) == [t |-> "ref", id |-> i]
Arr(items) == [t |-> "array", items |-> items]
Obj(pairs) == [t |-> "object", pairs |-> pairs]

\* ToBoolean
Truthy(v) ==
    CASE v.t \in {"undefined", "null"} -> FALSE
      [] v.t = "boolean" -> v.b
      [] v.t = "number" -> v.n # 0
      [] v.t = "string" -> v.s # <<>>
      [] OTHER -> TRUE

IsArray(v) == v.t = "array"

\* Ordered maps: the own enumerable properties of an object
Keys(o) == [i \in 1..Len(o) |-> o[i][1]]
Has(o, k) == \E i \in 1..Len(o) : o[i][1] = k
Get(o, k) == IF Has(o, k) THEN o[CHOOSE i \in 1..Len(o) : o[i][1] = k][2] ELSE Undefined
Put(o, k, v) ==
    IF Has(o, k)
    THEN [i \in 1..Len(o) |-> IF o[i][1] = k THEN <<k, v>> ELSE o[i]]
    ELSE Append(o, <<k, v>>)
Delete(o, k) == SelectSeq(o, LAMBDA p : p[1] # k)

\* { ...a, ...b }
RECURSIVE Spread(_, _)
Spread(a, b) ==
    IF b = <<>> THEN a ELSE Spread(Put(a, b[1][1], b[1][2]), Tail(b))

-----------------------------------------------------------------------------
(* The helpers davRequest imports                                          *)

\* util/nativeType: boolean literals, then the integer pattern (optional
\* sign), else the text itself.  The inputs of this model hold no floating
\* point numbers and no dates.
NativeType(value) ==
    IF value = s_true THEN Bool(TRUE)
    ELSE IF value = s_false THEN Bool(FALSE)
    ELSE IF AllDigits(value) THEN Num(ParseInt(value))
    ELSE IF Len(value) > 1 /\ value[1] = "-" /\ AllDigits(Tail(value))
         THEN Num(0 - ParseInt(Tail(value)))
    ELSE IF Len(value) > 1 /\ value[1] = "+" /\ AllDigits(Tail(value))
         THEN Num(ParseInt(Tail(value)))
    ELSE Str(value)

\* util/camelCase: a delimiter is removed and the character after it is
\* upper-cased.
IsDelimiter(c) == c \in {"-", "_"}

RECURSIVE CamelCase(_)
CamelCase(str) ==
    IF str = <<>> THEN <<>>
    ELSE IF IsDelimiter(str[1])
         THEN IF Len(str) > 1 /\ ~IsDelimiter(str[2])
              THEN <<ToUpperCase(str[2])>> \o CamelCase(SubSeq(str, 3, Len(str)))
              ELSE CamelCase(Tail(str))
    ELSE <<str[1]>> \o CamelCase(Tail(str))

\* util/requestHelpers cleanupFalsy: the entries whose value is falsy are dropped
CleanupFalsy(obj) == SelectSeq(obj, LAMBDA p : Truthy(p[2]))

-----------------------------------------------------------------------------
(* The callbacks davRequest gives to convert.xml2js                        *)

\* attributeName.replace(/^.+:/, ''): .+ is greedy, so the match ends at the
\* last colon that has at least one character before it.
ReplacePrefix(attributeName) ==
    LET colons == {i \in 2..Len(attributeName) : attributeName[i] = ":"}
    IN  IF colons = {} THEN attributeName
        ELSE LET last == CHOOSE i \in colons : \A j \in colons : j <= i
             IN  SubSeq(attributeName, last + 1, Len(attributeName))

ElementNameFn(attributeName) == CamelCase(ReplacePrefix(attributeName))

AttributesFn(value) == Delete(value, s_xmlns)

\* arr[arrIndex] = v
SetLast(arr, v) == Arr([i \in 1..Len(arr.items) |-> IF i = Len(arr.items) THEN v ELSE arr.items[i]])

\* textFn(value, parentElement): returns nothing; its effect is on the heap.
\* Every exception is caught and logged, leaving the heap as it is.
\* No element of the inputs is named "length", so an element object has no
\* length property.
TextFn(heap, value, parentElement) ==
    LET parentOfParent == Get(heap[parentElement], s_parent)
    IN  IF parentOfParent.t # "ref" THEN heap           \* Object.keys(undefined) throws
        ELSE
        LET pOp == heap[parentOfParent.id]
            pOpKeys == Keys(pOp)
            keyNo == Len(pOpKeys)
        IN  IF keyNo = 0 THEN heap                      \* (undefined).length throws
            ELSE
            LET keyName == pOpKeys[keyNo]
                arrOfKey == Get(pOp, keyName)
            IN  IF arrOfKey.t = "undefined" THEN heap   \* (undefined).length throws
                ELSE IF arrOfKey.t = "array" /\ Len(arrOfKey.items) > 0
                THEN [heap EXCEPT ![parentOfParent.id] =
                        Put(pOp, keyName, SetLast(arrOfKey, NativeType(value)))]
                ELSE IF arrOfKey.t = "string" /\ Len(arrOfKey.s) > 0
                THEN heap                               \* a string index is read-only: throws
                ELSE [heap EXCEPT ![parentOfParent.id] =
                        Put(pOp, keyName, NativeType(value))]

-----------------------------------------------------------------------------
(* convert.xml2js with { compact: true, trim: true, ignoreDeclaration: true *)
(* } and the callbacks above: what the library does at each parser event.   *)
(* A parser state is [heap, cur]: the objects built so far and the          *)
(* reference currentElement; object 1 is the result.                        *)

StartEvent(n, attributes) == [type |-> "start", name |-> n, attributes |-> attributes]
TextEvent(text) == [type |-> "text", text |-> text]
EndEvent == [type |-> "end"]

ParserInit == [heap |-> << <<>> >>, cur |-> 1]

OnStartElement(p, nm, attributes) ==
    LET attrs == AttributesFn(attributes)
        n == ElementNameFn(nm)
        id == Len(p.heap) + 1
        element == IF attrs # <<>> THEN << <<s_attributes, Obj(attrs)>> >> ELSE <<>>
        curObj == p.heap[p.cur]
        existing == Get(curObj, n)
        wrapped == IF Truthy(existing) /\ ~IsArray(existing)
                   THEN Put(curObj, n, Arr(<<existing>>))
                   ELSE curObj
        slot == Get(wrapped, n)
        added == IF IsArray(slot)
                 THEN Put(wrapped, n, Arr(Append(slot.items, Ref(id))))
                 ELSE Put(wrapped, n, Ref(id))
    IN  [heap |-> Append([p.heap EXCEPT ![p.cur] = added],
                         Put(element, s_parent, Ref(p.cur))),
         cur |-> id]

\* addField('text', text)
OnText(p, text) ==
    IF Trim(text) = <<>> THEN p
    ELSE
    LET curObj == p.heap[p.cur]
        existing == Get(curObj, s_text)
        wrapped == IF Truthy(existing) /\ ~IsArray(existing)
                   THEN Put(curObj, s_text, Arr(<<existing>>))
                   ELSE curObj
        heap1 == TextFn([p.heap EXCEPT ![p.cur] = wrapped], Trim(text), p.cur)
        value == Undefined      \* what textFn returned
        slot == Get(heap1[p.cur], s_text)
        stored == IF IsArray(slot)
                  THEN Put(heap1[p.cur], s_text, Arr(Append(slot.items, value)))
                  ELSE Put(heap1[p.cur], s_text, value)
    IN  [heap |-> [heap1 EXCEPT ![p.cur] = stored], cur |-> p.cur]

OnEndElement(p) ==
    LET parentElement == Get(p.heap[p.cur], s_parent)
    IN  [heap |-> [p.heap EXCEPT ![p.cur] = Delete(p.heap[p.cur], s_parent)],
         cur |-> parentElement.id]

OnEvent(p, e) ==
    CASE e.type = "start" -> OnStartElement(p, e.name, e.attributes)
      [] e.type = "text" -> OnText(p, e.text)
      [] e.type = "end" -> OnEndElement(p)

RECURSIVE ParseEvents(_, _)
ParseEvents(p, events) ==
    IF events = <<>> THEN p
    ELSE LET q == OnEvent(p, events[1])
         IN  \* currentElement is an object of the heap at every event
             IF q.cur \in 1..Len(q.heap) THEN ParseEvents(q, Tail(events)) ELSE q

\* The object graph below a value, by value
RECURSIVE Deref(_, _)
Deref(heap, v) ==
    CASE v.t = "ref" ->
            Obj([i \in 1..Len(heap[v.id]) |->
                    <<heap[v.id][i][1], Deref(heap, heap[v.id][i][2])>>])
      [] v.t = "array" -> Arr([i \in 1..Len(v.items) |-> Deref(heap, v.items[i])])
      [] OTHER -> v

Xml2js(events) == Deref(ParseEvents(ParserInit, events).heap, Ref(1))

\* The parser events of an element [name, attributes, text, children]
RECURSIVE SaxEvents(_)
RECURSIVE SaxEventsOfAll(_)
SaxEvents(el) ==
    <<StartEvent(el.name, el.attributes)>>
    \o (IF el.text = <<>> THEN <<>> ELSE <<TextEvent(el.text)>>)
    \o SaxEventsOfAll(el.children)
    \o <<EndEvent>>
SaxEventsOfAll(els) ==
    IF els = <<>> THEN <<>> ELSE SaxEvents(els[1]) \o SaxEventsOfAll(Tail(els))

Element(n, attributes, text, children) ==
    [name |-> n, attributes |-> attributes, text |-> text, children |-> children]
Leaf(n, text) == Element(n, <<>>, text, <<>>)
Node(n, children) == Element(n, <<>>, <<>>, children)

-----------------------------------------------------------------------------
(* davRequest after the parse: lines 118-152                               *)

TypeError == [threw |-> "TypeError"]
Threw(v) == "threw" \in DOMAIN v

\* v[k] for a key other than length
Member(v, k) ==
    CASE v.t \in {"undefined", "null"} -> TypeError
      [] v.t = "object" -> Get(v.pairs, k)
      [] OTHER -> Undefined

\* String(v)
RECURSIVE StringOf(_)
RECURSIVE Join(_)
StringOf(v) ==
    CASE v.t = "undefined" -> s_undefined
      [] v.t = "boolean" -> IF v.b THEN s_true ELSE s_false
      [] v.t = "number" -> IF v.n < 0 THEN <<"-">> \o NatToString(0 - v.n) ELSE NatToString(v.n)
      [] v.t = "string" -> v.s
      [] v.t = "array" -> Join(v.items)
      [] OTHER -> s_objectObject
Join(items) ==
    IF items = <<>> THEN <<>>
    ELSE (IF items[1].t = "undefined" THEN <<>> ELSE StringOf(items[1]))
         \o (IF Len(items) > 1 THEN <<",">> \o Join(Tail(items)) ELSE <<>>)

NoMatch == [matched |-> FALSE]

\* /^\S+\s(?<status>\d+)\s(?<statusText>.+)$/.exec(str)
StatusRegexExec(str) ==
    LET spaces == {i \in 1..Len(str) : IsSpace(str[i])}
    IN  IF spaces = {} THEN NoMatch
        ELSE
        LET sp == CHOOSE i \in spaces : \A j \in spaces : i <= j
            ends == {j \in (sp + 1)..Len(str) :
                        /\ \A k \in (sp + 1)..j : IsDigit(str[k])
                        /\ j < Len(str) /\ IsSpace(str[j + 1])}
        IN  IF sp < 2 \/ ends = {} THEN NoMatch
            ELSE
            LET j == CHOOSE e \in ends : TRUE
            IN  IF j + 2 > Len(str) THEN NoMatch
                ELSE [matched |-> TRUE,
                      status |-> SubSeq(str, sp + 1, j),
                      statusText |-> SubSeq(str, j + 2, Len(str))]

\* a normalization that forgets the single object
ResponseBodiesOfArrayOnly(response) ==
    IF IsArray(response) THEN response.items ELSE <<>>

\* Array.isArray(result.multistatus.response) ? ... : [...]
ResponseBodies(response) ==
    IF IsArray(response) THEN response.items ELSE <<response>>

\* Array.isArray(responseBody.propstat) ? ... : [...]
PropstatList(propstat) ==
    IF IsArray(propstat) THEN propstat.items ELSE <<propstat>>

\* the own enumerable properties a spread copies out of v
Spreadable(v) ==
    CASE v.t = "object" -> v.pairs
      [] v.t = "string" -> [i \in 1..Len(v.s) |-> <<NatToString(i - 1), Str(<<v.s[i]>>)>>]
      [] v.t = "array" -> [i \in 1..Len(v.items) |-> <<NatToString(i - 1), v.items[i]>>]
      [] OTHER -> <<>>

\* curr?.prop
OptionalProp(curr) ==
    IF curr.t \in {"undefined", "null"} THEN Undefined ELSE Member(curr, s_prop)

\* a fold with the spreads in the other order
ReducerEarlierWins(prev, curr) == Spread(Spreadable(OptionalProp(curr)), prev)

\* (prev, curr) => ({ ...prev, ...curr?.prop })
Reducer(prev, curr) == Spread(prev, Spreadable(OptionalProp(curr)))

RECURSIVE Reduce(_, _)
Reduce(list, prev) ==
    IF list = <<>> THEN prev ELSE Reduce(Tail(list), Reducer(prev, list[1]))

Props(responseBody) == Reduce(PropstatList(Member(responseBody, s_propstat)), <<>>)

\* ok: !responseBody.error
ResponseOk(responseBody) == ~Truthy(Member(responseBody, s_error))

\* a status with no fallback to the transport's
ResponseStatusWithoutFallback(matchArr, resp) ==
    IF matchArr.matched THEN ParseInt(matchArr.status) ELSE 0

ResponseStatus(matchArr, resp) ==
    IF matchArr.matched THEN ParseInt(matchArr.status) ELSE resp.status

ResponseStatusText(matchArr, resp) ==
    IF matchArr.matched THEN matchArr.statusText ELSE resp.statusText

\* the callback of responseBodies.map
MapResponse(responseBody, result, resp) ==
    IF ~Truthy(responseBody)
    THEN [status |-> resp.status, statusText |-> resp.statusText, ok |-> resp.ok]
    ELSE
    LET matchArr == StatusRegexExec(StringOf(Member(responseBody, s_status)))
    IN  [raw |-> result,
         href |-> Member(responseBody, s_href),
         status |-> ResponseStatus(matchArr, resp),
         statusText |-> ResponseStatusText(matchArr, resp),
         ok |-> ResponseOk(responseBody),
         error |-> Member(responseBody, s_error),
         responsedescription |-> Member(responseBody, s_responsedescription),
         props |-> Props(responseBody)]

\* lines 118-152: the results returned, or the exception thrown
MultistatusResults(result, resp) ==
    LET multistatus == Member(result, s_multistatus)
    IN  IF Threw(Member(multistatus, s_response)) THEN TypeError
        ELSE
        LET responseBodies == ResponseBodies(Member(multistatus, s_response))
        IN  [returned |->
                [i \in 1..Len(responseBodies) |-> MapResponse(responseBodies[i], result, resp)]]

-----------------------------------------------------------------------------
(* The response body text.  A plain text is its characters; the text of an *)
(* XML document is named by the element it holds, and the parser events of *)
(* that text are SaxEvents of the element; a text that is not well-formed  *)
(* makes convert.xml2js throw.                                             *)

PlainText(s) == [t |-> "string", s |-> s]
XmlText(root) == [t |-> "string", xml |-> root]
MalformedText == [t |-> "string", malformed |-> TRUE]

IsXmlText(text) == "xml" \in DOMAIN text

\* a fallback decision that forgets the content type
RawFallbackWithoutContentType(resp, parseOutgoing) ==
    ~resp.ok \/ ~parseOutgoing

\* !davResponse.ok || !davResponse.headers.get('content-type')?.includes('xml') || !parseOutgoing
RawFallback(resp, parseOutgoing) ==
    \/ ~resp.ok
    \/ ~(resp.contentType.t = "string" /\ Includes(resp.contentType.s, s_xml))
    \/ ~parseOutgoing

\* lines 68-152: what the call settles with once the body text is there
\* (outcome: the results returned or the exception thrown; parsed: whether
\* convert.xml2js was called)
Settle(resp, parseOutgoing) ==
    IF RawFallback(resp, parseOutgoing)
    THEN [parsed |-> FALSE,
          outcome |-> [returned |-> << [href |-> resp.url,
                                        ok |-> resp.ok,
                                        status |-> resp.status,
                                        statusText |-> resp.statusText,
                                        raw |-> resp.text] >>]]
    ELSE [parsed |-> TRUE,
          outcome |-> IF ~IsXmlText(resp.text) THEN [threw |-> "Error"]
                      ELSE MultistatusResults(Xml2js(SaxEvents(resp.text.xml)), resp)]

-----------------------------------------------------------------------------
(* davRequest before the exchange: lines 33-64, and propfind               *)

\* the elementNameFn of convert.js2xml: namespace && !/^.+:.+/.test(name)
QualifiedName(namespace, n) ==
    IF Truthy(namespace) /\ ~(\E i \in 2..(Len(n) - 1) : n[i] = ":")
    THEN namespace.s \o <<":">> \o n
    ELSE n

RECURSIVE Qualified(_, _)
Qualified(namespace, el) ==
    [el EXCEPT !.name = QualifiedName(namespace, el.name),
               !.children = [i \in 1..Len(el.children) |-> Qualified(namespace, el.children[i])]]

\* convert.js2xml(...): the text of the document that holds the body's
\* element, under the declaration.  No caller of this model sets
\* init.attributes.
XmlBody(p) ==
    IF p.convertIncoming THEN XmlText(Qualified(p.init.namespace, p.init.body))
    ELSE p.init.body

\* the arguments of client.fetch
FetchArgs(p) ==
    [url |-> p.url,
     headers |-> << <<s_ContentType, Str(s_applicationXml)>> >>,
     body |-> XmlBody(p),
     method |-> p.init.method]

\* a second exchange after the first
ExchangesWithRetry(p) == <<FetchArgs(p), FetchArgs(p)>>

\* the calls of client.fetch that davRequest makes
Exchanges(p) == <<FetchArgs(p)>>

\* getDAVAttribute([CALDAV, CALDAV_APPLE, CALENDAR_SERVER, CARDDAV, DAV])
DAVAttributes ==
    << << <<"x", "m", "l", "n", "s", ":", "c">>, Str(<<"urn:ietf:params:xml:ns:caldav">>) >>,
       << <<"x", "m", "l", "n", "s", ":", "c", "a">>, Str(<<"http://apple.com/ns/ical/">>) >>,
       << <<"x", "m", "l", "n", "s", ":", "c", "s">>, Str(<<"http://calendarserver.org/ns/">>) >>,
       << <<"x", "m", "l", "n", "s", ":", "c", "a", "r", "d">>, Str(<<"urn:ietf:params:xml:ns:carddav">>) >>,
       << <<"x", "m", "l", "n", "s", ":", "d">>, Str(<<"DAV:">>) >> >>

\* the params propfind hands to davRequest
PropfindParams(url, props, depth, headers, account) ==
    [url |-> url,
     init |-> [method |-> s_PROPFIND,
               headers |-> CleanupFalsy(Spread(<< <<s_depth, depth>> >>, Spreadable(headers))),
               namespace |-> Str(<<"d">>),
               body |-> Element(<<"p", "r", "o", "p", "f", "i", "n", "d">>, DAVAttributes, <<>>,
                                <<Node(s_prop, props)>>)],
     account |-> account,
     convertIncoming |-> TRUE,
     parseOutgoing |-> TRUE]

-----------------------------------------------------------------------------
(* Inputs                                                                  *)

Calls == 1..NumCalls

s_url == <<"/", "d", "a", "v", "/">>
s_a == <<"/", "a">>
s_b == <<"/", "b">>
s_OK == <<"O", "K">>
s_MultiStatus == <<"M", "u", "l", "t", "i", "-", "S", "t", "a", "t", "u", "s">>
s_NotFound == <<"N", "o", "t", " ", "F", "o", "u", "n", "d">>
s_line404 == <<"H", "T", "T", "P", "/", "1", ".", "1", " ", "4", "0", "4", " ", "N", "o", "t", " ", "F", "o", "u", "n", "d">>
s_line200 == <<"H", "T", "T", "P", "/", "1", ".", "1", " ", "2", "0", "0", " ", "O", "K">>
s_hello == <<"h", "e", "l", "l", "o">>
s_0 == <<"0">>
s_1 == <<"1">>
s_infinity == <<"i", "n", "f", "i", "n", "i", "t", "y">>
s_dresponse == <<"d", ":", "r", "e", "s", "p", "o", "n", "s", "e">>
s_dhref == <<"d", ":", "h", "r", "e", "f">>
s_dstatus == <<"d", ":", "s", "t", "a", "t", "u", "s">>
s_derror == <<"d", ":", "e", "r", "r", "o", "r">>
s_dpropstat == <<"d", ":", "p", "r", "o", "p", "s", "t", "a", "t">>
s_dprop == <<"d", ":", "p", "r", "o", "p">>
s_dmultistatus == <<"d", ":", "m", "u", "l", "t", "i", "s", "t", "a", "t", "u", "s">>
s_displayname == <<"d", ":", "d", "i", "s", "p", "l", "a", "y", "n", "a", "m", "e">>
s_getctag == <<"c", "s", ":", "g", "e", "t", "c", "t", "a", "g">>
s_syncToken == <<"d", ":", "s", "y", "n", "c", "-", "t", "o", "k", "e", "n">>

\* what the transport collaborator resolves with; ok is status in 200..299
Response(status, statusText, contentType, text) ==
    [ok |-> status \in 200..299, status |-> status, statusText |-> statusText,
     url |-> s_url, contentType |-> contentType, text |-> text]

StatusPairs == {<<200, s_OK>>, <<207, s_MultiStatus>>, <<404, s_NotFound>>}
ContentTypes == {Null, Str(s_textPlain), Str(s_applicationXml), Str(s_textXml)}

PropBlock(leaves) == Node(s_dpropstat, <<Node(s_dprop, leaves)>>)

TwoResponses ==
    Node(s_dmultistatus,
         << Node(s_dresponse, <<Leaf(s_dhref, s_a), PropBlock(<<Leaf(s_displayname, s_hello)>>)>>),
            Node(s_dresponse, <<Leaf(s_dhref, s_b), Leaf(s_dstatus, s_line404)>>) >>)

Texts == {PlainText(s_hello), XmlText(TwoResponses), MalformedText}

WideResponses ==
    {Response(sp[1], sp[2], ct, text) : sp \in StatusPairs, ct \in ContentTypes, text \in Texts}

NarrowResponses ==
    { Response(207, s_MultiStatus, Str(s_applicationXml), XmlText(TwoResponses)),
      Response(404, s_NotFound, Str(s_textPlain), PlainText(s_hello)),
      Response(200, s_OK, Str(s_textPlain), PlainText(s_hello)) }

DirectParams(account, convertIncoming, parseOutgoing) ==
    [url |-> s_url,
     init |-> [method |-> s_PROPFIND,
               headers |-> << <<s_depth, Str(s_1)>> >>,
               namespace |-> Str(<<"d">>),
               body |-> Node(<<"p", "r", "o", "p", "f", "i", "n", "d">>, <<Node(s_prop, <<>>)>>)],
     account |-> account,
     convertIncoming |-> convertIncoming,
     parseOutgoing |-> parseOutgoing]

Depths == {Undefined, Str(s_0), Str(s_1), Str(s_infinity)}
CallerHeaders ==
    {Undefined,
     Obj(<< <<<<"x">>, Str(<<"y">>)>> >>),
     Obj(<< <<s_depth, Str(s_0)>>, <<<<"x">>, Str(<<"y">>)>> >>)}

WideInputs ==
    [direct |-> {DirectParams(a, ci, po) : a \in BOOLEAN, ci \in BOOLEAN, po \in BOOLEAN},
     depths |-> Depths,
     headers |-> CallerHeaders,
     responses |-> WideResponses]

NarrowInputs ==
    [direct |-> {DirectParams(TRUE, TRUE, TRUE), DirectParams(TRUE, TRUE, FALSE),
                 DirectParams(FALSE, TRUE, TRUE)},
     depths |-> {Str(s_1)},
     headers |-> {Undefined},
     responses |-> NarrowResponses]

-----------------------------------------------------------------------------
(* Actions: one call of davRequest runs from its start to the await of     *)
(* client.fetch, from there to the await of davResponse.text(), and from   *)
(* there to its end.                                                       *)

NoCall == [fn |-> "none"]
NoResponse == [status |-> 0]
Pending == [pending |-> TRUE]

\* lines 33-58
Begin(c, caller, p) ==
    /\ params' = [params EXCEPT ![c] = [caller |-> caller, dav |-> p]]
    /\ IF p.account
       THEN /\ sent' = [sent EXCEPT ![c] = sent[c] \o Exchanges(p)]
            /\ pc' = [pc EXCEPT ![c] = "awaitFetch"]
            /\ UNCHANGED outcome
       ELSE /\ outcome' = [outcome EXCEPT ![c] = TypeError]   \* account!.credentials
            /\ pc' = [pc EXCEPT ![c] = "rejected"]
            /\ UNCHANGED sent
    /\ UNCHANGED <<davResponse, parsed, doc, tree, name, normalized>>

\* a caller calls davRequest
DavRequest(c, in) ==
    /\ pc[c] = "idle"
    /\ \E p \in in.direct : Begin(c, [fn |-> "davRequest"], p)

\* a caller calls propfind, lines 155-184, which calls davRequest
Propfind(c, in) ==
    /\ pc[c] = "idle"
    /\ \E depth \in in.depths, headers \in in.headers :
        Begin(c, [fn |-> "propfind", depth |-> depth, headers |-> headers],
              PropfindParams(s_url, <<Node(<<"d", "i", "s", "p", "l", "a", "y", "n", "a", "m", "e">>, <<>>)>>,
                             depth, headers, TRUE))

\* client.fetch resolves: line 58, then line 66 up to its await
FetchResolves(c, in) ==
    /\ pc[c] = "awaitFetch"
    /\ \E resp \in in.responses : davResponse' = [davResponse EXCEPT ![c] = resp]
    /\ pc' = [pc EXCEPT ![c] = "awaitText"]
    /\ UNCHANGED <<params, sent, parsed, outcome, doc, tree, name, normalized>>

\* client.fetch rejects: the call rejects with the transport's error
FetchRejects(c) ==
    /\ pc[c] = "awaitFetch"
    /\ outcome' = [outcome EXCEPT ![c] = [threw |-> "FetchError"]]
    /\ pc' = [pc EXCEPT ![c] = "rejected"]
    /\ UNCHANGED <<params, sent, davResponse, parsed, doc, tree, name, normalized>>

\* davResponse.text() resolves: lines 66-152
TextResolves(c) ==
    /\ pc[c] = "awaitText"
    /\ LET settled == Settle(davResponse[c], params[c].dav.parseOutgoing)
       IN  /\ outcome' = [outcome EXCEPT ![c] = settled.outcome]
           /\ parsed' = [parsed EXCEPT ![c] = settled.parsed]
           /\ pc' = [pc EXCEPT ![c] = IF Threw(settled.outcome) THEN "rejected" ELSE "returned"]
    /\ UNCHANGED <<params, sent, davResponse, doc, tree, name, normalized>>

NoParse == [t |-> "pending"]

InitCalls ==
    /\ pc = [c \in Calls |-> "idle"]
    /\ params = [c \in Calls |-> [caller |-> NoCall]]
    /\ sent = [c \in Calls |-> <<>>]
    /\ davResponse = [c \in Calls |-> NoResponse]
    /\ parsed = [c \in Calls |-> FALSE]
    /\ outcome = [c \in Calls |-> Pending]

Init ==
    /\ InitCalls
    /\ doc = <<>> /\ tree = NoParse /\ name = <<>> /\ normalized = <<>>

\* concurrent calls
Next ==
    \E c \in Calls :
        \/ DavRequest(c, NarrowInputs)
        \/ Propfind(c, NarrowInputs)
        \/ FetchResolves(c, NarrowInputs)
        \/ FetchRejects(c)
        \/ TextResolves(c)

Spec == Init /\ [][Next]_vars

\* one call, over every combination of its inputs
NextCall ==
    \/ DavRequest(1, WideInputs)
    \/ Propfind(1, WideInputs)
    \/ FetchResolves(1, WideInputs)
    \/ FetchRejects(1)
    \/ TextResolves(1)

SpecCall == Init /\ [][NextCall]_vars

-----------------------------------------------------------------------------
(* The continuation of one call over multistatus documents.  A document is *)
(* described by its responses, each [href, status, error, propstats]: the  *)
(* texts of its href and status children (<<>> when the child is absent),  *)
(* the kind of its error child, and the leaves of each propstat's prop.    *)

ErrorKinds == {"none", "empty", "child", "false", "zero"}

ErrorElements(kind) ==
    CASE kind = "none" -> <<>>
      [] kind = "empty" -> <<Node(s_derror, <<>>)>>
      [] kind = "child" -> <<Node(s_derror, <<Node(<<"d", ":", "n", "o", "-", "l", "o", "c", "k">>, <<>>)>>)>>
      [] kind = "false" -> <<Leaf(s_derror, s_false)>>
      [] kind = "zero" -> <<Leaf(s_derror, s_0)>>

ResponseElement(d) ==
    Node(s_dresponse,
         (IF d.href = <<>> THEN <<>> ELSE <<Leaf(s_dhref, d.href)>>)
         \o (IF d.status = <<>> THEN <<>> ELSE <<Leaf(s_dstatus, d.status)>>)
         \o [i \in 1..Len(d.propstats) |-> PropBlock(d.propstats[i])]
         \o ErrorElements(d.error))

MultistatusElement(ds) ==
    Node(s_dmultistatus, [i \in 1..Len(ds) |-> ResponseElement(ds[i])])

MultistatusResponse(ds) ==
    Response(207, s_MultiStatus, Str(s_applicationXml), XmlText(MultistatusElement(ds)))

Descriptor(href, status, error, propstats) ==
    [href |-> href, status |-> status, error |-> error, propstats |-> propstats]

Block1 == <<Leaf(s_displayname, s_hello)>>
Block2 == <<Leaf(s_displayname, <<"h", "i">>), Leaf(s_syncToken, <<"4", "2">>)>>
Block3 == <<Leaf(s_getctag, s_0)>>
Blocks == {Block1, Block2, Block3}

RECURSIVE SeqsUpTo(_, _)
SeqsUpTo(S, n) ==
    IF n = 0 THEN {<<>>}
    ELSE LET shorter == SeqsUpTo(S, n - 1)
         IN  shorter \cup {Append(q, x) : q \in shorter, x \in S}

StatusTexts == {<<>>, s_line404, <<"4", "0", "4">>}

SingleShapes ==
    {Descriptor(h, st, e, <<>>) : h \in {<<>>, s_a, s_b}, st \in StatusTexts, e \in ErrorKinds}
    \cup {Descriptor(s_a, s_line200, "none", bs) : bs \in SeqsUpTo(Blocks, MaxPropstat)}

CoreShapes ==
    { Descriptor(<<>>, <<>>, "none", <<>>),
      Descriptor(s_a, s_line404, "none", <<Block1>>),
      Descriptor(s_b, <<>>, "child", <<>>),
      Descriptor(s_b, <<"4", "0", "4">>, "false", <<>>),
      Descriptor(s_a, s_line200, "none", <<Block1, Block2>>) }

MultistatusDocs ==
    {<<d>> : d \in SingleShapes} \cup SeqsUpTo(CoreShapes, MaxResponses)

InitMultistatus ==
    /\ doc \in MultistatusDocs
    /\ pc = [c \in Calls |-> IF c = 1 THEN "awaitText" ELSE "idle"]
    /\ params = [c \in Calls |-> IF c = 1
                                 THEN [caller |-> [fn |-> "davRequest"],
                                       dav |-> DirectParams(TRUE, TRUE, TRUE)]
                                 ELSE [caller |-> NoCall]]
    /\ sent = [c \in Calls |-> IF c = 1 THEN Exchanges(DirectParams(TRUE, TRUE, TRUE)) ELSE <<>>]
    /\ davResponse = [c \in Calls |-> IF c = 1 THEN MultistatusResponse(doc) ELSE NoResponse]
    /\ parsed = [c \in Calls |-> FALSE]
    /\ outcome = [c \in Calls |-> Pending]
    /\ tree = NoParse /\ name = <<>> /\ normalized = <<>>

NextMultistatus == TextResolves(1)

SpecMultistatus == InitMultistatus /\ [][NextMultistatus]_vars

-----------------------------------------------------------------------------
(* convert.xml2js over the children of one element                         *)

s_da == <<"d", ":", "a">>
s_parentName == <<"d", ":", "p", "r", "o", "p">>
SomeAttributes == << <<s_xmlns, Str(<<"D", "A", "V", ":">>)>>, <<<<"k">>, Str(<<"v">>)>> >>

ChildKinds ==
    {Leaf(n, text) : n \in {s_da, <<"b">>}, text \in {<<>>, s_0, <<"h", "i">>}}
    \cup {Element(s_da, SomeAttributes, text, <<>>) : text \in {<<>>, <<"h", "i">>}}

InitParse ==
    /\ doc \in SeqsUpTo(ChildKinds, MaxChildren)
    /\ tree = NoParse
    /\ InitCalls
    /\ name = <<>> /\ normalized = <<>>

ParseChildren ==
    /\ tree = NoParse
    /\ tree' = Xml2js(SaxEvents(Node(s_parentName, doc)))
    /\ UNCHANGED <<pc, params, sent, davResponse, parsed, outcome, doc, name, normalized>>

SpecParse == InitParse /\ [][ParseChildren]_vars

-----------------------------------------------------------------------------
(* The elementNameFn of convert.xml2js over element names                  *)

NameChars == {"a", "b", ":", "-"}

\* names that start with a letter and have no empty segment between colons
Names ==
    {n \in SeqsUpTo(NameChars, MaxNameLen) :
        /\ n # <<>>
        /\ n[1] \in {"a", "b"}
        /\ n[Len(n)] # ":"
        /\ \A i \in 1..(Len(n) - 1) : ~(n[i] = ":" /\ n[i + 1] = ":")}

InitName ==
    /\ name \in Names
    /\ normalized = <<>>
    /\ InitCalls
    /\ doc = <<>> /\ tree = NoParse

\* the parser normalizes a name; a caller hands a normalized name back
NormalizeName ==
    /\ Len(normalized) < 2
    /\ normalized' = Append(normalized,
                            ElementNameFn(IF normalized = <<>> THEN name ELSE normalized[1]))
    /\ UNCHANGED <<pc, params, sent, davResponse, parsed, outcome, doc, tree, name>>

SpecName == InitName /\ [][NormalizeName]_vars

-----------------------------------------------------------------------------
(* Properties                                                              *)

Settled(c) == pc[c] \in {"returned", "rejected"}
SettledAfterText(c) == Settled(c) /\ davResponse[c] # NoResponse
Results(c) == outcome[c].returned
IsRawFallbackResult(r) == "raw" \in DOMAIN r /\ r.raw.t = "string"
XmlContentTypes == {Str(s_applicationXml), Str(s_textXml)}

\* C1: after the exchange the call returns exactly one Raw Fallback Result
\* with the transport's url, ok, status, statusText and body text, without
\* entering the parse, iff the transport reports non-success or the content
\* type does not indicate XML (or is missing) or parseOutgoing is false; in
\* every other case the parse is entered and what is returned holds no Raw
\* Fallback Result.
C1_RawFallbackDecision ==
    \A c \in Calls :
        SettledAfterText(c) =>
            LET resp == davResponse[c]
                fallback == \/ ~resp.ok
                            \/ resp.contentType \notin XmlContentTypes
                            \/ ~params[c].dav.parseOutgoing
            IN  /\ fallback =>
                    /\ ~parsed[c]
                    /\ outcome[c] = [returned |-> << [href |-> resp.url, ok |-> resp.ok,
                                                      status |-> resp.status,
                                                      statusText |-> resp.statusText,
                                                      raw |-> resp.text] >>]
                /\ ~fallback =>
                    /\ parsed[c]
                    /\ pc[c] = "returned" =>
                          \A i \in 1..Len(Results(c)) : ~IsRawFallbackResult(Results(c)[i])

C1_Witness ==
    \E c \in Calls :
        /\ pc[c] = "returned"
        /\ davResponse[c].ok /\ params[c].dav.parseOutgoing
        /\ davResponse[c].contentType = Null
        /\ IsXmlText(davResponse[c].text)
        /\ ~parsed[c]
        /\ Results(c)[1].raw = davResponse[c].text

IsDepthHeader(k) == k \in {s_depth, s_Depth}

\* C2: the request that a propfind call with depth 0, 1 or infinity hands to
\* the transport carries a Depth header equal to that depth, and the
\* headers the caller supplied.
C2_DepthHeaderSent ==
    \A c \in Calls :
        (params[c].caller.fn = "propfind" /\ params[c].caller.depth # Undefined /\ sent[c] # <<>>) =>
            LET headers == sent[c][1].headers
                supplied == Spreadable(params[c].caller.headers)
            IN  /\ \E i \in 1..Len(headers) :
                      IsDepthHeader(headers[i][1]) /\ headers[i][2] = params[c].caller.depth
                /\ \A j \in 1..Len(supplied) :
                      ~IsDepthHeader(supplied[j][1]) => Get(headers, supplied[j][1]) = supplied[j][2]

\* C3: a document of n >= 1 response elements yields exactly n results, the
\* i-th with the href of the i-th response element.
C3_OneResultPerResponse ==
    (pc[1] = "returned" /\ Len(doc) >= 1) =>
        /\ Len(Results(1)) = Len(doc)
        /\ \A i \in 1..Len(doc) :
              doc[i].href # <<>> =>
                  /\ "href" \in DOMAIN Results(1)[i]
                  /\ Results(1)[i].href = Str(doc[i].href)

C3_Witness ==
    /\ pc[1] = "returned"
    /\ Len(doc) = 2 /\ doc[1].href = s_a /\ doc[2].href = s_b
    /\ Results(1)[1].href = Str(s_a) /\ Results(1)[2].href = Str(s_b)

PairSet(o) == {<<o[i][1], o[i][2]>> : i \in 1..Len(o)}
LeafNames(block) == {ElementNameFn(block[i].name) : i \in 1..Len(block)}
LeafValue(block, k) ==
    NativeType(block[CHOOSE i \in 1..Len(block) : ElementNameFn(block[i].name) = k].text)
LastBlockWith(propstats, k) ==
    CHOOSE j \in 1..Len(propstats) :
        /\ k \in LeafNames(propstats[j])
        /\ \A l \in (j + 1)..Len(propstats) : k \notin LeafNames(propstats[l])
ExpectedProps(propstats) ==
    {<<k, LeafValue(propstats[LastBlockWith(propstats, k)], k)>> :
        k \in UNION {LeafNames(propstats[j]) : j \in 1..Len(propstats)}}

ParsedResponse(r, i) == ResponseBodies(Member(Member(r.raw, s_multistatus), s_response))[i]

\* C4: props holds, for every key its propstat blocks define, the value of
\* the last block that defines it, and nothing else; and a propstat that is
\* a single object gives the props that the one-element sequence holding it
\* gives.
C4_PropsFold ==
    pc[1] = "returned" =>
        \A i \in 1..Len(doc) :
            "props" \in DOMAIN Results(1)[i] =>
                /\ PairSet(Results(1)[i].props) = ExpectedProps(doc[i].propstats)
                /\ Cardinality(PairSet(Results(1)[i].props)) = Len(Results(1)[i].props)
                /\ LET responseBody == ParsedResponse(Results(1)[i], i)
                       propstat == Member(responseBody, s_propstat)
                   IN  propstat.t = "object" =>
                          Props(Obj(Put(responseBody.pairs, s_propstat, Arr(<<propstat>>))))
                              = Results(1)[i].props

C4_Witness ==
    /\ pc[1] = "returned"
    /\ Len(doc) = 2
    /\ doc[1].propstats = <<Block1>> /\ doc[2].propstats = <<Block1, Block2>>
    /\ Get(Results(1)[1].props, ElementNameFn(s_displayname)) = Str(s_hello)
    /\ Get(Results(1)[2].props, ElementNameFn(s_displayname)) = Str(<<"h", "i">>)

Occurrences(children, n) == SelectSeq(children, LAMBDA el : ElementNameFn(el.name) = n)
SlotValues(parsedTree, n) ==
    LET slot == Member(Member(parsedTree, ElementNameFn(s_parentName)), n)
    IN  IF IsArray(slot) THEN slot.items ELSE <<slot>>
ChildNames == {ElementNameFn(doc[i].name) : i \in 1..Len(doc)}

\* C5: after the parse, the k-th occurrence of a name under the parent holds
\* the coercion of the k-th element's own text, and the occurrences are as
\* many as the elements.
C5_LeafInItsOwnSlot ==
    tree # NoParse =>
        \A n \in ChildNames :
            /\ Len(SlotValues(tree, n)) = Len(Occurrences(doc, n))
            /\ \A k \in 1..Len(Occurrences(doc, n)) :
                  Occurrences(doc, n)[k].text # <<>> =>
                      SlotValues(tree, n)[k] = NativeType(Occurrences(doc, n)[k].text)

IsEmptyResponse(d) == d.href = <<>> /\ d.status = <<>> /\ d.error = "none" /\ d.propstats = <<>>

\* C6: for every non-empty response element, ok is true iff the response
\* carries no error element.
C6_OkIffNoError ==
    pc[1] = "returned" =>
        \A i \in 1..Len(doc) :
            ~IsEmptyResponse(doc[i]) =>
                /\ "ok" \in DOMAIN Results(1)[i]
                /\ Results(1)[i].ok = (doc[i].error = "none")

WithoutRaw(r) == [f \in DOMAIN r \ {"raw"} |-> r[f]]
Alone(d) == Settle(MultistatusResponse(<<d>>), TRUE).outcome.returned[1]

\* C7: the call returns, with one result per response (one result for a
\* document with no response); an empty response gets the transport's
\* status, statusText and ok; a status line that is missing or does not
\* match gets the transport's status and statusText; a response with no
\* propstat gets empty props; and every result is what its response gives
\* alone, whatever the other responses are.
C7_AnomaliesDegrade ==
    Settled(1) =>
        /\ pc[1] = "returned"
        /\ Len(Results(1)) = IF doc = <<>> THEN 1 ELSE Len(doc)
        /\ doc = <<>> =>
              Results(1)[1] = [status |-> davResponse[1].status,
                               statusText |-> davResponse[1].statusText,
                               ok |-> davResponse[1].ok]
        /\ \A i \in 1..Len(doc) :
              LET r == Results(1)[i]
              IN  /\ IsEmptyResponse(doc[i]) => r.ok = davResponse[1].ok
                  /\ doc[i].status \in {<<>>, <<"4", "0", "4">>} =>
                        /\ r.status = davResponse[1].status
                        /\ r.statusText = davResponse[1].statusText
                  /\ doc[i].propstats = <<>> => ("props" \in DOMAIN r => r.props = <<>>)
                  /\ WithoutRaw(r) = WithoutRaw(Alone(doc[i]))

C7_Witness ==
    /\ pc[1] = "returned"
    /\ Len(doc) = 2
    /\ IsEmptyResponse(doc[1])
    /\ doc[2] = Descriptor(s_a, s_line404, "none", <<Block1>>)
    /\ Results(1)[1].status = 207
    /\ Results(1)[2].status = 404 /\ Results(1)[2].statusText = s_NotFound

\* C8: for every element, the output holds no xmlns attribute and holds
\* every other attribute of the element with its value.
C8_AttributesKept ==
    tree # NoParse =>
        \A n \in ChildNames :
            /\ Len(SlotValues(tree, n)) = Len(Occurrences(doc, n))
            /\ \A k \in 1..Len(Occurrences(doc, n)) :
                  LET given == Occurrences(doc, n)[k].attributes
                      kept == Member(SlotValues(tree, n)[k], s_attributes)
                  IN  given # <<>> =>
                          /\ kept.t = "object"
                          /\ ~Has(kept.pairs, s_xmlns)
                          /\ \A j \in 1..Len(given) :
                                given[j][1] # s_xmlns =>
                                    Get(kept.pairs, given[j][1]) = given[j][2]

CallState(c) == <<pc[c], params[c], sent[c], davResponse[c], parsed[c], outcome[c]>>

ExactlyOneExchange ==
    \A c \in Calls :
        /\ Len(sent[c]) <= 1
        /\ pc[c] \in {"awaitFetch", "awaitText", "returned"} => Len(sent[c]) = 1
        /\ (pc[c] = "returned" /\ ~davResponse[c].ok) =>
              /\ Len(Results(c)) = 1
              /\ Results(c)[1].ok = FALSE
              /\ Results(c)[1].status = davResponse[c].status
              /\ Results(c)[1].raw = davResponse[c].text

NoSecondExchange ==
    \A c \in Calls :
        /\ sent[c]' # sent[c] => pc[c] = "idle"
        /\ Settled(c) => CallState(c)' = CallState(c)
        /\ CallState(c)' # CallState(c) =>
              \A d \in Calls \ {c} : CallState(d)' = CallState(d)

\* C9: in every interleaving of the calls, a call has made exactly one
\* exchange when it returns and never makes a second; a non-success
\* exchange is surfaced once, as it is; and a step of one call leaves the
\* state of every other call as it was.
C9_SingleExchange == []ExactlyOneExchange /\ [][NoSecondExchange]_vars

C9_Witness ==
    /\ pc[1] = "returned" /\ pc[2] = "returned"
    /\ ~davResponse[1].ok /\ davResponse[2].ok
    /\ Len(sent[1]) = 1 /\ Len(sent[2]) = 1
    /\ Results(1)[1].status = 404

\* the run of non-colon characters up to and including the first colon
FirstPrefixStripped(n) ==
    IF \E i \in 1..Len(n) : n[i] = ":"
    THEN SubSeq(n, (CHOOSE i \in 1..Len(n) : n[i] = ":" /\ \A j \in 1..(i - 1) : n[j] # ":") + 1, Len(n))
    ELSE n

\* C10: normalizing a normalized name returns it unchanged, and normalizing
\* a name strips exactly its first prefix segment, and nothing of a bare
\* name.
C10_NormalizeStripsFirstPrefix ==
    /\ Len(normalized) >= 1 => normalized[1] = CamelCase(FirstPrefixStripped(name))
    /\ Len(normalized) = 2 => normalized[2] = normalized[1]

====
